---- MODULE Spec2Model ----
(***************************************************************************)
(* Model of astrbot_plugin_be_checker: the BattlEye ban query              *)
(* (src/ban_check.py) and the plugin entry points (src/main.py).           *)
(*                                                                         *)
(* Python values are records [t, s, n]: t is the type tag, s the           *)
(* codepoints of a str, n the value of an int.  A str is a sequence of     *)
(* Unicode codepoints, a bytes object a sequence of 0..255.                *)
(*                                                                         *)
(* The event loop is modelled by `cur`: the task that is running.  A task  *)
(* runs without interruption until it suspends (a contended lock, the      *)
(* snapshot write handed to a thread, the HTTP call, the UDP endpoint, the *)
(* wait for the reply); only then may another task or callback run.        *)
(***************************************************************************)
EXTENDS Integers, Sequences, FiniteSets, TLC

\* ------------------------------------------------------------------ bounds
\* Number of concurrently dispatched command handlers.
NumTasks == 2
\* Commands dispatched in one run.
MaxCalls == 2
\* Length of the reply tail (the bytes after the 4-byte header).
MaxTailLen == 3

\* --------------------------------------------------------- Python values
PyNone == [t |-> "None", s |-> <<>>, n |-> 0]
PyStr(s) == [t |-> "str", s |-> s, n |-> 0]
PyInt(n) == [t |-> "int", s |-> <<>>, n |-> n]
\* A non-empty JSON array, e.g. [1]: truthy, and int() of it is a TypeError.
PyList == [t |-> "list", s |-> <<>>, n |-> 0]

\* Mutant of Truthy: the tests read `is not None`, so an empty str passes.
TruthyNotNone(v) == v.t # "None"

\* bool(v), as `if cached_rid:` and `if not rid:` evaluate it.
Truthy(v) ==
    CASE v.t = "str" -> v.s # <<>>
      [] v.t = "int" -> v.n # 0
      [] v.t = "list" -> TRUE
      [] OTHER -> FALSE

\* Codepoints str.strip() and int() treat as whitespace (those below 256).
Whitespace == {9, 10, 11, 12, 13, 28, 29, 30, 31, 32, 133, 160}
\* "0".."9"
DecimalDigits == 48..57
\* Codepoints below 256 with the Unicode Digit property: the decimal digits
\* and the superscripts two, three and one.
DigitChars == DecimalDigits \cup {178, 179, 185}

RECURSIVE LStrip(_)
LStrip(s) == IF s # <<>> /\ Head(s) \in Whitespace THEN LStrip(Tail(s)) ELSE s

RECURSIVE RStrip(_)
RStrip(s) ==
    IF s # <<>> /\ s[Len(s)] \in Whitespace
    THEN RStrip(SubSeq(s, 1, Len(s) - 1))
    ELSE s

\* str.strip()
Strip(s) == RStrip(LStrip(s))

\* str.isdigit(): non-empty and every character a digit character.
IsDigit(s) == s # <<>> /\ \A i \in 1..Len(s) : s[i] \in DigitChars

RECURSIVE DecimalValue(_)
DecimalValue(s) ==
    IF s = <<>> THEN 0
    ELSE 10 * DecimalValue(SubSeq(s, 1, Len(s) - 1)) + (s[Len(s)] - 48)

\* int(v): [exc, n].  A str is stripped, may carry one sign, and must then
\* be a non-empty run of decimal digits; an int is itself; None and a list
\* raise TypeError.
IntOf(v) ==
    CASE v.t = "int" -> [exc |-> "none", n |-> v.n]
      [] v.t = "str" ->
           LET body == Strip(v.s)
               signed == body # <<>> /\ Head(body) \in {43, 45}
               digits == IF signed THEN Tail(body) ELSE body
           IN  IF digits # <<>> /\ \A i \in 1..Len(digits) : digits[i] \in DecimalDigits
               THEN [exc |-> "none",
                     n |-> IF signed /\ Head(body) = 45
                           THEN 0 - DecimalValue(digits)
                           ELSE DecimalValue(digits)]
               ELSE [exc |-> "ValueError", n |-> 0]
      [] OTHER -> [exc |-> "TypeError", n |-> 0]

\* The decimal digits of a natural number.
RECURSIVE DecimalString(_)
DecimalString(n) ==
    IF n < 10 THEN <<48 + n>> ELSE DecimalString(n \div 10) \o <<48 + (n % 10)>>

\* str(v), for the values a JSON "id" field may hold: a str is itself, an
\* int its decimal digits, null is "None".
StrOf(v) ==
    CASE v.t = "str" -> v.s
      [] v.t = "int" -> IF v.n < 0 THEN <<45>> \o DecimalString(0 - v.n)
                        ELSE DecimalString(v.n)
      [] OTHER -> <<78, 111, 110, 101>>

\* ------------------------------------------------------ _decode_ban_data
\* bytes.decode('ascii', errors='replace'): a byte above 127 becomes U+FFFD.
DecodeAsciiReplace(b) == [i \in 1..Len(b) |-> IF b[i] < 128 THEN b[i] ELSE 65533]

\* bytes.decode('utf-8', errors='replace') for one- and two-byte sequences
\* (ByteAlphabet holds no lead byte of a longer one): a lead byte 0xC2..0xDF
\* followed by a continuation byte 0x80..0xBF is one character, any other
\* byte above 127 becomes U+FFFD.
RECURSIVE DecodeUtf8Replace(_)
DecodeUtf8Replace(b) ==
    IF b = <<>> THEN <<>>
    ELSE IF b[1] < 128 THEN <<b[1]>> \o DecodeUtf8Replace(Tail(b))
    ELSE IF b[1] \in 194..223 /\ Len(b) >= 2 /\ b[2] \in 128..191
         THEN <<(b[1] - 192) * 64 + (b[2] - 128)>> \o DecodeUtf8Replace(Tail(Tail(b)))
    ELSE <<65533>> \o DecodeUtf8Replace(Tail(b))

\* bytes.decode('latin-1'): every byte is its own codepoint.
DecodeLatin1(b) == b

HexChar(d) == IF d < 10 THEN 48 + d ELSE 87 + d

\* bytes.hex(): two lowercase hexadecimal characters per byte.
RECURSIVE Hex(_)
Hex(b) ==
    IF b = <<>> THEN <<>>
    ELSE <<HexChar(b[1] \div 16), HexChar(b[1] % 16)>> \o Hex(Tail(b))

\* The loop over ['ascii', 'utf-8', 'latin-1']: the first decoding whose
\* stripped result is non-empty is returned.  errors='replace' never raises,
\* so `except Exception: continue` is never taken; hex() is returned when all
\* three stripped results are empty.
_decode_ban_data(ban_data) ==
    LET a == Strip(DecodeAsciiReplace(ban_data))
        u == Strip(DecodeUtf8Replace(ban_data))
        l == Strip(DecodeLatin1(ban_data))
    IN  IF a # <<>> THEN a
        ELSE IF u # <<>> THEN u
        ELSE IF l # <<>> THEN l
        ELSE Hex(ban_data)

\* Lines 200-204 of check_ban_reason: the reason a reply datagram yields.
ReplyReason(response) ==
    IF Len(response) > 4
    THEN _decode_ban_data(SubSeq(response, 5, Len(response)))
    ELSE <<>>

\* ------------------------------------------------------------ the inputs
\* Identifiers a command may carry: "12" (all digits) and "al" (a handle).
Identifiers == {<<49, 50>>, <<97, 108>>}

\* Values a snapshot file may hold for an identifier: "12", "ab", "", 0, 7
\* and a JSON array.
CacheValues ==
    {PyStr(<<49, 50>>), PyStr(<<97, 98>>), PyStr(<<>>), PyInt(0), PyInt(7), PyList}

\* What get_rid_from_name returns: None (non-200, no "id", any exception) or
\* str(data["id"]): "34", "ab" or "".
ResolverOutcomes == {PyNone, PyStr(<<51, 52>>), PyStr(<<97, 98>>), PyStr(<<>>)}

\* The "id" field of the resolver's JSON answer: 34, "ab" or "".
ResolverIds == {PyInt(34), PyStr(<<97, 98>>), PyStr(<<>>)}

\* How the HTTP request of get_rid_from_name ends: the connection fails
\* (aiohttp.ClientError); the request times out or the body is not JSON (any
\* other exception); the status is not 200; the JSON object has no "id"; it
\* has one.
HttpOutcomes ==
    {[kind |-> k, id |-> PyNone] : k \in {"ClientError", "Exception", "non200", "no_id"}}
        \cup {[kind |-> "id", id |-> v] : v \in ResolverIds}

\* Reply datagrams: header only, header + "A", header + " ".
Replies == {<<0, 0, 0, 0>>, <<0, 0, 0, 0, 65>>, <<0, 0, 0, 0, 32>>}

\* What the awaited create_datagram_endpoint and the sendto after it do: the
\* endpoint cannot be created (OSError); the datagram is sent; the socket
\* rejects it (OSError, reported through protocol.error_received); sendto
\* itself raises.
EndpointOutcomes == {"OSError", "sent", "error_received", "send_raises"}

\* How the thread running _save ends.
SaveOutcomes == {"ok", "PermissionError", "OSError"}

\* The bytes of the tails the decoder is tried on: " ", "A", 0xA9, 0xC3, 0xFF.
ByteAlphabet == {32, 65, 169, 195, 255}

Tasks == 1..NumTasks
\* The handlers of the race on one identifier: one more than Tasks.
AllTasks == 1..(NumTasks + 1)

\* "查询超时"
TimeoutText == <<26597, 35810, 36229, 26102>>
\* f"查询错误: {str(e)}", the exception's text being "E"
ErrorText == <<26597, 35810, 38169, 35823, 58, 32, 69>>

\* ----------------------------------------------------------------- state
VARIABLES
    CACHE_FILE_PATH,  \* FALSE: None; TRUE: set by initialize
    RID_CACHE,        \* the dict: a function from its keys to their values
    file,             \* the snapshot file: [kind, jt, m]
    plugin,          \* "unloaded", "loaded", or "failed" (initialize raised)
    lock,             \* CACHE_LOCK: [locked, owner, waiters, woken]
    cur,              \* the task the event loop is running, 0 when none
    task,             \* per task: its call, its locals, its position
    calls,            \* commands dispatched so far
    mutated,          \* RID_CACHE was changed by a command
    writeFailed,      \* a snapshot write has failed
    linear,           \* the cache operations so far, applied one after another
    dec               \* the reply under decoding: [pc, response, reason]

vars == <<CACHE_FILE_PATH, RID_CACHE, file, plugin, lock, cur, task, calls,
          mutated, writeFailed, linear, dec>>

EmptyDict == [k \in {} |-> PyNone]

\* Mutant of DictPut: the table is rebound to a dict of the one entry.
DictPutOnly(d, k, v) == [x \in {k} |-> v]

\* RID_CACHE.get(identifier)
DictGet(d, k) == IF k \in DOMAIN d THEN d[k] ELSE PyNone
\* RID_CACHE[identifier] = rid
DictPut(d, k, v) == [x \in DOMAIN d \cup {k} |-> IF x = k THEN v ELSE d[x]]
\* RID_CACHE.pop(identifier, None)
DictPop(d, k) == [x \in DOMAIN d \ {k} |-> d[x]]

\* All dicts from identifiers to cache values.
Dicts == UNION {[D -> CacheValues] : D \in SUBSET Identifiers}

FileMissing == [kind |-> "missing", jt |-> "none", m |-> EmptyDict]
FileUnreadable == [kind |-> "unreadable", jt |-> "none", m |-> EmptyDict]
FileMalformed == [kind |-> "malformed", jt |-> "none", m |-> EmptyDict]
\* json.dump(RID_CACHE, f): the file holds the table as a JSON object.
FileOf(d) == [kind |-> "json", jt |-> "dict", m |-> d]
\* A file that parses, but to an array ([1, 2]) or to a number (5).
FileList == [kind |-> "json", jt |-> "list", m |-> EmptyDict]
FileNumber == [kind |-> "json", jt |-> "int", m |-> EmptyDict]

Files == {FileMissing, FileUnreadable, FileMalformed, FileList, FileNumber}
             \cup {FileOf(d) : d \in Dicts}

NoResult == [ok |-> FALSE, kind |-> "none", reason |-> <<>>]

\* The table as the set of its (key, value) pairs.
Items(d) == {<<k, d[k]>> : k \in DOMAIN d}

\* A cache whose operations run one at a time, on a set of (key, value)
\* pairs: the reference the table is compared with.
SeqGet(s, k) ==
    IF \E e \in s : e[1] = k THEN (CHOOSE e \in s : e[1] = k)[2] ELSE PyNone
SeqPut(s, k, v) == {e \in s : e[1] # k} \cup {<<k, v>>}
SeqRemove(s, k) == {e \in s : e[1] # k}
SeqClear(s) == {}
SeqSize(s) == Cardinality(s)

IdleTask ==
    [pc |-> "idle", op |-> "none", identifier |-> <<>>, use_cache |-> FALSE,
     lk |-> "none", save |-> "none", cached_rid |-> PyNone, rid |-> PyNone,
     rid_int |-> 0, transport |-> "none", future |-> "none", response |-> <<>>,
     closes |-> 0, lost |-> FALSE, udp |-> "none", sends |-> 0, lookups |-> 0,
     repaired |-> FALSE, saveFailed |-> FALSE, result |-> NoResult, ret |-> 0,
     http |-> "none", gets |-> 0, puts |-> 0, seq_rid |-> PyNone, seq_ret |-> 0]

DecIdle == [pc |-> "off", response |-> <<>>, reason |-> <<>>]

Init ==
    /\ CACHE_FILE_PATH = FALSE
    /\ RID_CACHE = EmptyDict
    /\ file \in Files
    /\ plugin = "unloaded"
    /\ lock = [locked |-> FALSE, owner |-> 0, waiters |-> <<>>, woken |-> {}]
    /\ cur = 0
    /\ task = [p \in AllTasks |-> IdleTask]
    /\ calls = 0
    /\ mutated = FALSE
    /\ writeFailed = FALSE
    /\ linear = {}
    /\ dec = DecIdle

\* ------------------------------------------------------------ initialize
\* load_cache_from_file: what it returns, as a file.  A missing file, and a
\* file that cannot be read or parsed, yield {}; a file that parses yields
\* whatever json.load returns, a dict or not.
load_cache_from_file(path) ==
    IF path = FALSE \/ file.kind # "json" THEN FileOf(EmptyDict) ELSE file

\* init_cache: RID_CACHE.update(cached_data) raises TypeError when
\* cached_data is a number or an array of numbers.
init_cache_raises(cached_data) == cached_data.jt # "dict"

\* BanCheckerPlugin.initialize: set the path, load, init_cache.  Nothing else
\* runs before it ends: the lock is free and the update takes it at once.
initialize ==
    /\ plugin = "unloaded"
    /\ cur = 0
    /\ CACHE_FILE_PATH' = TRUE
    /\ LET cached_data == load_cache_from_file(TRUE)
       IN  IF init_cache_raises(cached_data)
           THEN /\ plugin' = "failed"
                /\ RID_CACHE' = RID_CACHE
                /\ linear' = linear
           ELSE /\ plugin' = "loaded"
                /\ RID_CACHE' = [k \in DOMAIN RID_CACHE \cup DOMAIN cached_data.m |->
                                   IF k \in DOMAIN cached_data.m
                                   THEN cached_data.m[k] ELSE RID_CACHE[k]]
                /\ linear' = Items(RID_CACHE')
    /\ UNCHANGED <<file, lock, cur, task, calls, mutated, writeFailed, dec>>

\* ------------------------------------------------------------ CACHE_LOCK
\* Mutant of CanAcquireNow: a lock that never makes its caller wait.
CanAcquireAlways(l) == TRUE

\* asyncio.Lock.acquire returns at once when the lock is free and nobody
\* waits for it; otherwise the caller queues behind the waiters.
CanAcquireNow(l) == ~l.locked /\ l.waiters = <<>>

\* Mutant of Release: the lock is freed and no waiter is woken.
ReleaseNoWake(l) ==
    [locked |-> FALSE, owner |-> 0, waiters |-> l.waiters, woken |-> {}]

\* asyncio.Lock.release: the lock is free and the first waiter is woken.
Release(l) ==
    [locked |-> FALSE, owner |-> 0, waiters |-> l.waiters,
     woken |-> IF l.waiters # <<>> THEN {Head(l.waiters)} ELSE {}]

RemoveWaiter(w, p) == SelectSeq(w, LAMBDA q : q # p)

\* The functions whose body is one `async with CACHE_LOCK:` block.
LockFns == {"get_rid_from_cache", "add_rid_to_cache", "remove_from_cache",
            "clear_cache", "get_cache_stats"}

\* `async with CACHE_LOCK:` entered by the running task.
CACHE_LOCK_acquire(p) ==
    /\ cur = p
    /\ task[p].pc \in LockFns
    /\ task[p].lk = "none"
    /\ IF CanAcquireNow(lock)
       THEN /\ lock' = [lock EXCEPT !.locked = TRUE, !.owner = p]
            /\ task' = [task EXCEPT ![p].lk = "held"]
            /\ cur' = cur
       ELSE /\ lock' = [lock EXCEPT !.waiters = Append(@, p)]
            /\ task' = [task EXCEPT ![p].lk = "wait"]
            /\ cur' = 0
    /\ UNCHANGED <<CACHE_FILE_PATH, RID_CACHE, file, plugin, calls, mutated, linear,
                   writeFailed, dec>>

\* The woken waiter runs again: it leaves the queue and takes the lock.
CACHE_LOCK_wakeup(p) ==
    /\ cur = 0
    /\ task[p].lk = "wait"
    /\ p \in lock.woken
    /\ lock' = [locked |-> TRUE, owner |-> p,
                waiters |-> RemoveWaiter(lock.waiters, p), woken |-> {}]
    /\ task' = [task EXCEPT ![p].lk = "held"]
    /\ cur' = p
    /\ UNCHANGED <<CACHE_FILE_PATH, RID_CACHE, file, plugin, calls, mutated, linear,
                   writeFailed, dec>>

\* ------------------------------------------------------- the commands
\* _handle_check_ban: /查封禁 (use_cache) and /查封禁强制 (not use_cache)
\* call check_ban_async, which starts at line 276.
check_ban_async(p, identifier, use_cache) ==
    /\ plugin = "loaded"
    /\ cur = 0
    /\ task[p].pc = "idle"
    /\ calls' = calls + 1
    /\ cur' = p
    /\ task' = [task EXCEPT ![p] =
                  [IdleTask EXCEPT !.op = "check", !.identifier = identifier,
                                   !.use_cache = use_cache,
                                   !.pc = IF use_cache THEN "get_rid_from_cache"
                                          ELSE "resolve"]]
    /\ UNCHANGED <<CACHE_FILE_PATH, RID_CACHE, file, plugin, lock, mutated, linear,
                   writeFailed, dec>>

\* BanCheckerPlugin.clear_cache: /清空缓存
clear_cache_command(p) ==
    /\ plugin = "loaded"
    /\ cur = 0
    /\ task[p].pc = "idle"
    /\ calls' = calls + 1
    /\ cur' = p
    /\ task' = [task EXCEPT ![p] = [IdleTask EXCEPT !.op = "clear", !.pc = "clear_cache"]]
    /\ UNCHANGED <<CACHE_FILE_PATH, RID_CACHE, file, plugin, lock, mutated, linear,
                   writeFailed, dec>>

\* BanCheckerPlugin.cache_status: /缓存状态
cache_status(p) ==
    /\ plugin = "loaded"
    /\ cur = 0
    /\ task[p].pc = "idle"
    /\ calls' = calls + 1
    /\ cur' = p
    /\ task' = [task EXCEPT ![p] = [IdleTask EXCEPT !.op = "stats", !.pc = "get_cache_stats"]]
    /\ UNCHANGED <<CACHE_FILE_PATH, RID_CACHE, file, plugin, lock, mutated, linear,
                   writeFailed, dec>>

\* The call has returned to its handler, which yields the result at once
\* (no await lies between the two) and ends.
plain_result(p) ==
    /\ cur = p
    /\ task[p].pc = "done"
    /\ task' = [task EXCEPT ![p] = IdleTask]
    /\ cur' = 0
    /\ UNCHANGED <<CACHE_FILE_PATH, RID_CACHE, file, plugin, lock, calls,
                   mutated, linear, writeFailed, dec>>

\* The task that runs after a step of task p that left it as record t: p
\* itself when the call has returned, nobody when p is suspended.
Running(p, t) == IF t.pc = "done" THEN p ELSE 0

\* check_ban_async returns (ok, message); the message is kept as its kind
\* and the ban reason it quotes.
Returns(t, ok, kind, reason) ==
    [t EXCEPT !.pc = "done", !.result = [ok |-> ok, kind |-> kind, reason |-> reason]]

\* Mutant of BanResult: a query that timed out is sent again.
BanResultRetry(t, ban_reason) ==
    IF ban_reason = <<>>
    THEN Returns(t, TRUE, "not_banned", <<>>)
    ELSE IF ban_reason = TimeoutText /\ t.sends < 2
         THEN [t EXCEPT !.pc = "create_datagram_endpoint"]
         ELSE Returns(t, TRUE, "banned", ban_reason)

\* Lines 285-288 and 315-318: the result for a ban reason.
BanResult(t, ban_reason) ==
    IF ban_reason = <<>>
    THEN Returns(t, TRUE, "not_banned", <<>>)
    ELSE Returns(t, TRUE, "banned", ban_reason)

\* get_rid_from_cache, lock held: the lookup; the lock is released.
get_rid_from_cache(p) ==
    /\ cur = p
    /\ task[p].pc = "get_rid_from_cache"
    /\ task[p].lk = "held"
    /\ task' = [task EXCEPT ![p].cached_rid = DictGet(RID_CACHE, task[p].identifier),
                            ![p].seq_rid = SeqGet(linear, task[p].identifier),
                            ![p].gets = @ + 1,
                            ![p].lk = "none", ![p].pc = "cached"]
    /\ lock' = Release(lock)
    /\ UNCHANGED <<CACHE_FILE_PATH, RID_CACHE, file, plugin, cur, calls,
                   mutated, linear, writeFailed, dec>>

\* Lines 278-293: `if cached_rid:` and int(rid).  A ValueError leads to
\* remove_from_cache, any other exception of int() to (False, "错误: ...");
\* a parsed id goes to check_ban_reason, which suspends in
\* create_datagram_endpoint.
use_cached_rid(p) ==
    /\ cur = p
    /\ task[p].pc = "cached"
    /\ LET t == task[p]
           parsed == IntOf(t.cached_rid)
       IN  IF ~Truthy(t.cached_rid)
           THEN /\ task' = [task EXCEPT ![p].pc = "resolve"]
                /\ cur' = cur
           ELSE CASE parsed.exc = "none" ->
                       /\ task' = [task EXCEPT ![p].rid = t.cached_rid,
                                               ![p].rid_int = parsed.n,
                                               ![p].pc = "create_datagram_endpoint"]
                       /\ cur' = 0
                  [] parsed.exc = "ValueError" ->
                       /\ task' = [task EXCEPT ![p].rid = t.cached_rid,
                                               ![p].pc = "remove_from_cache"]
                       /\ cur' = cur
                  [] OTHER ->
                       /\ task' = [task EXCEPT ![p] =
                                     Returns([t EXCEPT !.rid = t.cached_rid],
                                             FALSE, "error", <<>>)]
                       /\ cur' = cur
    /\ UNCHANGED <<CACHE_FILE_PATH, RID_CACHE, file, plugin, lock, calls,
                   mutated, linear, writeFailed, dec>>

\* remove_from_cache, lock held: the pop; the lock is released.  Nothing is
\* written to the snapshot file.
remove_from_cache(p) ==
    /\ cur = p
    /\ task[p].pc = "remove_from_cache"
    /\ task[p].lk = "held"
    /\ RID_CACHE' = DictPop(RID_CACHE, task[p].identifier)
    /\ linear' = SeqRemove(linear, task[p].identifier)
    /\ mutated' = (mutated \/ RID_CACHE' # RID_CACHE)
    /\ task' = [task EXCEPT ![p].lk = "none", ![p].pc = "resolve",
                            ![p].repaired = TRUE]
    /\ lock' = Release(lock)
    /\ UNCHANGED <<CACHE_FILE_PATH, file, plugin, cur, calls, writeFailed, dec>>

\* Lines 297-301: an identifier of digits is the rid; any other is looked
\* up by get_rid_from_name, which suspends in the HTTP request.
resolve(p) ==
    /\ cur = p
    /\ task[p].pc = "resolve"
    /\ IF IsDigit(task[p].identifier)
       THEN /\ task' = [task EXCEPT ![p].rid = PyStr(task[p].identifier),
                                    ![p].pc = "got_rid"]
            /\ cur' = cur
       ELSE /\ task' = [task EXCEPT ![p].pc = "get_rid_from_name",
                                    ![p].lookups = @ + 1]
            /\ cur' = 0
    /\ UNCHANGED <<CACHE_FILE_PATH, RID_CACHE, file, plugin, lock, calls,
                   mutated, linear, writeFailed, dec>>

\* Mutant of ResolverReturn: without the `except Exception` clause a timeout
\* or a body that is not JSON leaves get_rid_from_name as an exception.
ResolverReturnNoCatchAll(http) ==
    CASE http.kind = "id" -> [raises |-> FALSE, value |-> PyStr(StrOf(http.id))]
      [] http.kind = "Exception" -> [raises |-> TRUE, value |-> PyNone]
      [] OTHER -> [raises |-> FALSE, value |-> PyNone]

\* Lines 243-263: what get_rid_from_name does with the end of its HTTP
\* request.  str(data["id"]) is returned for status 200 and a JSON object
\* with an "id"; both except clauses return None, as does the fall-through.
ResolverReturn(http) ==
    CASE http.kind = "id" -> [raises |-> FALSE, value |-> PyStr(StrOf(http.id))]
      [] OTHER -> [raises |-> FALSE, value |-> PyNone]

\* The HTTP request ends and the task runs again.  Line 301 lies in no try
\* block: an exception of get_rid_from_name would leave check_ban_async.
get_rid_from_name(p, http) ==
    /\ cur = 0
    /\ task[p].pc = "get_rid_from_name"
    /\ LET r == ResolverReturn(http)
           t == [task[p] EXCEPT !.http = http.kind]
       IN  task' = [task EXCEPT ![p] =
                      IF r.raises THEN Returns(t, FALSE, "raised", <<>>)
                      ELSE [t EXCEPT !.rid = r.value, !.pc = "got_rid"]]
    /\ cur' = p
    /\ UNCHANGED <<CACHE_FILE_PATH, RID_CACHE, file, plugin, lock, calls,
                   mutated, linear, writeFailed, dec>>

\* Lines 303-323 up to the first suspension: `if not rid`, then
\* add_rid_to_cache when use_cache, else int(rid) and check_ban_reason.
QueryFresh(t) ==
    IF IntOf(t.rid).exc = "none"
    THEN [t EXCEPT !.rid_int = IntOf(t.rid).n, !.pc = "create_datagram_endpoint"]
    ELSE IF IntOf(t.rid).exc = "ValueError"
         THEN Returns(t, FALSE, "invalid_rid", <<>>)
         ELSE Returns(t, FALSE, "error", <<>>)

\* Mutant of StoresRid: the fresh id is stored whatever use_cache is.
StoresRidAlways(t) == TRUE

\* Line 307: `if use_cache:` before add_rid_to_cache.
StoresRid(t) == t.use_cache

got_rid(p) ==
    /\ cur = p
    /\ task[p].pc = "got_rid"
    /\ LET t == task[p]
       IN  IF ~Truthy(t.rid)
           THEN /\ task' = [task EXCEPT ![p] = Returns(t, FALSE, "no_rid", <<>>)]
                /\ cur' = cur
           ELSE IF StoresRid(t)
                THEN /\ task' = [task EXCEPT ![p].pc = "add_rid_to_cache"]
                     /\ cur' = cur
                ELSE /\ task' = [task EXCEPT ![p] = QueryFresh(t)]
                     /\ cur' = Running(p, QueryFresh(t))
    /\ UNCHANGED <<CACHE_FILE_PATH, RID_CACHE, file, plugin, lock, calls,
                   mutated, linear, writeFailed, dec>>

\* ---------------------------------------------------- save_cache_to_file
\* Mutant of SaveRaises: the `except OSError` clause (and the catch-all) is
\* missing, so an OSError of the write leaves save_cache_to_file.
SaveRaisesOSError(outcome) == outcome # "ok" /\ outcome \notin {"PermissionError"}

\* Lines 96-101: whether an exception of _save leaves save_cache_to_file.
\* PermissionError and OSError each have their except clause.
SaveRaises(outcome) == outcome # "ok" /\ outcome \notin {"PermissionError", "OSError"}

\* save_cache_to_file up to `await asyncio.to_thread(_save)`, called with the
\* lock held by task record t: without a path it returns at once.
SaveStarts(t) == [t EXCEPT !.save = "running", !.lk = "saving"]

\* add_rid_to_cache, lock held: the assignment, then save_cache_to_file,
\* which suspends the task, still holding the lock, while the thread writes.
add_rid_to_cache(p) ==
    /\ cur = p
    /\ task[p].pc = "add_rid_to_cache"
    /\ task[p].lk = "held"
    /\ RID_CACHE' = DictPut(RID_CACHE, task[p].identifier, task[p].rid)
    /\ linear' = SeqPut(linear, task[p].identifier, task[p].rid)
    /\ mutated' = (mutated \/ RID_CACHE' # RID_CACHE)
    /\ LET t == [task[p] EXCEPT !.puts = @ + 1]
       IN  IF CACHE_FILE_PATH
           THEN /\ task' = [task EXCEPT ![p] = SaveStarts(t)]
                /\ lock' = lock
           ELSE /\ task' = [task EXCEPT ![p] = QueryFresh([t EXCEPT !.lk = "none"])]
                /\ lock' = Release(lock)
    /\ cur' = Running(p, task'[p])
    /\ UNCHANGED <<CACHE_FILE_PATH, file, plugin, calls, writeFailed, dec>>

\* Mutant of ClearSize: len(RID_CACHE) taken after RID_CACHE.clear().
ClearSizeAfter(d) == Cardinality(DOMAIN EmptyDict)

\* Line 236: cache_size = len(RID_CACHE), taken before RID_CACHE.clear().
ClearSize(d) == Cardinality(DOMAIN d)

\* clear_cache, lock held: the size, the clear, then save_cache_to_file.
clear_cache(p) ==
    /\ cur = p
    /\ task[p].pc = "clear_cache"
    /\ task[p].lk = "held"
    /\ RID_CACHE' = EmptyDict
    /\ linear' = SeqClear(linear)
    /\ mutated' = (mutated \/ RID_CACHE' # RID_CACHE)
    /\ LET t == [task[p] EXCEPT !.ret = ClearSize(RID_CACHE),
                                !.seq_ret = SeqSize(linear)]
       IN  IF CACHE_FILE_PATH
           THEN /\ task' = [task EXCEPT ![p] = SaveStarts(t)]
                /\ lock' = lock
           ELSE /\ task' = [task EXCEPT ![p] =
                              Returns([t EXCEPT !.lk = "none"], TRUE, "cleared", <<>>)]
                /\ lock' = Release(lock)
    /\ cur' = Running(p, task'[p])
    /\ UNCHANGED <<CACHE_FILE_PATH, file, plugin, calls, writeFailed, dec>>

\* _save, in its thread: makedirs, open(..., 'w'), json.dump(RID_CACHE).  A
\* PermissionError leaves the file as it was; an OSError while writing
\* leaves a truncated file.
_save(p, outcome) ==
    /\ task[p].save = "running"
    /\ file' = CASE outcome = "ok" -> FileOf(RID_CACHE)
                 [] outcome = "PermissionError" -> file
                 [] OTHER -> FileMalformed
    /\ writeFailed' = (writeFailed \/ outcome # "ok")
    /\ task' = [task EXCEPT ![p].save = outcome]
    /\ UNCHANGED <<CACHE_FILE_PATH, RID_CACHE, plugin, lock, cur, calls, mutated,
                   linear, dec>>

\* The thread has ended and the task runs again: save_cache_to_file logs a
\* caught exception and returns, the `async with` block ends and releases
\* the lock, and the caller goes on: check_ban_async to int(rid) and
\* check_ban_reason, clear_cache to `return cache_size`.
save_cache_to_file_returns(p) ==
    /\ cur = 0
    /\ task[p].lk = "saving"
    /\ task[p].save \in SaveOutcomes
    /\ lock' = Release(lock)
    /\ LET t == [task[p] EXCEPT !.lk = "none", !.save = "none",
                                !.saveFailed = (task[p].save # "ok")]
       IN  task' = [task EXCEPT ![p] =
                      IF SaveRaises(task[p].save) THEN Returns(t, FALSE, "raised", <<>>)
                      ELSE IF t.op = "clear" THEN Returns(t, TRUE, "cleared", <<>>)
                      ELSE QueryFresh(t)]
    /\ cur' = Running(p, task'[p])
    /\ UNCHANGED <<CACHE_FILE_PATH, RID_CACHE, file, plugin, calls, mutated, linear,
                   writeFailed, dec>>

\* get_cache_stats, lock held: the size; the lock is released.
get_cache_stats(p) ==
    /\ cur = p
    /\ task[p].pc = "get_cache_stats"
    /\ task[p].lk = "held"
    /\ task' = [task EXCEPT ![p] =
                  Returns([task[p] EXCEPT !.lk = "none",
                                          !.ret = Cardinality(DOMAIN RID_CACHE),
                                          !.seq_ret = SeqSize(linear)],
                          TRUE, "stats", <<>>)]
    /\ lock' = Release(lock)
    /\ cur' = cur
    /\ UNCHANGED <<CACHE_FILE_PATH, RID_CACHE, file, plugin, calls, mutated, linear,
                   writeFailed, dec>>

\* ------------------------------------------------------ check_ban_reason
\* transport.close()
Close(t) == [t EXCEPT !.transport = "closing", !.closes = @ + 1]

\* Mutant of CloseIfOpen: `if transport: transport.close()`, without the
\* is_closing() test.
CloseUnlessNone(t) == IF t.transport # "none" THEN Close(t) ELSE t

\* `if transport and not transport.is_closing(): transport.close()`
CloseIfOpen(t) == IF t.transport = "open" THEN Close(t) ELSE t

\* _BattlEyeProtocol.datagram_received
datagram_received_cb(t, data) ==
    IF t.future = "pending"
    THEN Close([t EXCEPT !.response = data, !.future = "result", !.udp = "reply"])
    ELSE t

\* _BattlEyeProtocol.error_received
error_received_cb(t) ==
    IF t.future = "pending"
    THEN Close([t EXCEPT !.future = "exception", !.udp = "error_received"])
    ELSE t

\* _BattlEyeProtocol.connection_lost(exc), exc being None or an exception:
\* only a loss without exception before any reply fails the future.
connection_lost_cb(t, exc) ==
    IF t.future = "pending" /\ exc = "None" /\ t.response = <<>>
    THEN [t EXCEPT !.future = "exception", !.udp = "timeout"]
    ELSE t

\* The `except Exception` of check_ban_reason (lines 211-215): the transport
\* is closed if it is open, and the error text is the ban reason returned.
OuterExcept(t) == BanResult(CloseIfOpen(t), ErrorText)

\* create_datagram_endpoint ends and the task runs on to the wait for the
\* reply (lines 185-198).
create_datagram_endpoint(p, outcome) ==
    /\ cur = 0
    /\ task[p].pc = "create_datagram_endpoint"
    /\ LET t == task[p]
           made == [t EXCEPT !.transport = "open", !.future = "pending"]
           sent == [made EXCEPT !.sends = @ + 1]
       IN  task' = [task EXCEPT ![p] =
             CASE outcome = "OSError" -> OuterExcept([t EXCEPT !.udp = "endpoint_error"])
               [] outcome = "send_raises" ->
                    OuterExcept([made EXCEPT !.udp = "send_error"])
               [] outcome = "error_received" ->
                    \* wait_for raises the future's exception at once
                    OuterExcept(CloseIfOpen(error_received_cb(sent)))
               [] OTHER -> [sent EXCEPT !.pc = "wait_for"]]
    /\ cur' = Running(p, task'[p])
    /\ UNCHANGED <<CACHE_FILE_PATH, RID_CACHE, file, plugin, lock, calls,
                   mutated, linear, writeFailed, dec>>

\* A datagram arrives while the task waits.
datagram_received(p, data) ==
    /\ cur = 0
    /\ task[p].pc = "wait_for"
    /\ task[p].transport = "open"
    /\ task' = [task EXCEPT ![p] = datagram_received_cb(task[p], data)]
    /\ UNCHANGED <<CACHE_FILE_PATH, RID_CACHE, file, plugin, lock, cur, calls,
                   mutated, linear, writeFailed, dec>>

\* The socket reports an OSError while the task waits.
error_received(p) ==
    /\ cur = 0
    /\ task[p].pc = "wait_for"
    /\ task[p].transport = "open"
    /\ task' = [task EXCEPT ![p] = error_received_cb(task[p])]
    /\ UNCHANGED <<CACHE_FILE_PATH, RID_CACHE, file, plugin, lock, cur, calls,
                   mutated, linear, writeFailed, dec>>

\* The event loop calls connection_lost once per transport: with None after
\* the transport was closed, or with the exception of a fatal error, on which
\* the loop closes the transport itself.
connection_lost(p, exc) ==
    /\ cur = 0
    /\ task[p].pc = "wait_for"
    /\ ~task[p].lost
    /\ IF exc = "None" THEN task[p].transport = "closing" ELSE task[p].transport = "open"
    /\ LET t == IF exc = "None" THEN task[p] ELSE Close(task[p])
       IN  task' = [task EXCEPT ![p] = connection_lost_cb([t EXCEPT !.lost = TRUE], exc)]
    /\ UNCHANGED <<CACHE_FILE_PATH, RID_CACHE, file, plugin, lock, cur, calls,
                   mutated, linear, writeFailed, dec>>

\* BATTLEYE_TIMEOUT passes with the future pending: wait_for cancels it and
\* raises TimeoutError (lines 205-209).
wait_for_timeout(p) ==
    /\ cur = 0
    /\ task[p].pc = "wait_for"
    /\ task[p].future = "pending"
    /\ task' = [task EXCEPT ![p] =
                  BanResult(CloseIfOpen([task[p] EXCEPT !.future = "cancelled",
                                                        !.udp = "timeout"]),
                            TimeoutText)]
    /\ cur' = Running(p, task'[p])
    /\ UNCHANGED <<CACHE_FILE_PATH, RID_CACHE, file, plugin, lock, calls,
                   mutated, linear, writeFailed, dec>>

\* The future is done and the task runs again (lines 200-209, 211-215).
wait_for_returns(p) ==
    /\ cur = 0
    /\ task[p].pc = "wait_for"
    /\ task[p].future \in {"result", "exception"}
    /\ task' = [task EXCEPT ![p] =
                  IF task[p].future = "result"
                  THEN BanResult(CloseIfOpen(task[p]), ReplyReason(task[p].response))
                  ELSE OuterExcept(CloseIfOpen(task[p]))]
    /\ cur' = Running(p, task'[p])
    /\ UNCHANGED <<CACHE_FILE_PATH, RID_CACHE, file, plugin, lock, calls,
                   mutated, linear, writeFailed, dec>>

\* ------------------------------------------------------- the reply decoder
\* Datagrams of up to 3 bytes, and a 4-byte header followed by a tail.
Responses ==
    UNION {[1..k -> {0}] : k \in 0..3}
      \cup {<<0, 0, 0, 0>> \o tail :
              tail \in UNION {[1..k -> ByteAlphabet] : k \in 0..MaxTailLen}}

\* Lines 200-204 of check_ban_reason, applied to a received datagram.
DecodeReply ==
    /\ dec.pc = "received"
    /\ dec' = [dec EXCEPT !.pc = "returned", !.reason = ReplyReason(dec.response)]
    /\ UNCHANGED <<CACHE_FILE_PATH, RID_CACHE, file, plugin, lock, cur, task,
                   calls, mutated, linear, writeFailed>>

InitDecode ==
    /\ CACHE_FILE_PATH = FALSE
    /\ RID_CACHE = EmptyDict
    /\ file = FileMissing
    /\ plugin = "unloaded"
    /\ lock = [locked |-> FALSE, owner |-> 0, waiters |-> <<>>, woken |-> {}]
    /\ cur = 0
    /\ task = [p \in AllTasks |-> IdleTask]
    /\ calls = 0
    /\ mutated = FALSE
    /\ writeFailed = FALSE
    /\ linear = {}
    /\ dec \in [pc : {"received"}, response : Responses, reason : {<<>>}]

NextDecode == DecodeReply

\* Every reply of Responses, decoded once.
SpecDecode == InitDecode /\ [][NextDecode]_vars

\* ------------------------------------------------------------------ Next
\* The steps of one handler, whatever the resolver, the disk and the network
\* do.
Handler(p) ==
    \/ /\ calls < MaxCalls
       /\ \/ \E identifier \in Identifiers, use_cache \in BOOLEAN :
                check_ban_async(p, identifier, use_cache)
          \/ clear_cache_command(p)
          \/ cache_status(p)
    \/ plain_result(p)
    \/ CACHE_LOCK_acquire(p)
    \/ get_rid_from_cache(p)
    \/ use_cached_rid(p)
    \/ remove_from_cache(p)
    \/ resolve(p)
    \/ \E http \in HttpOutcomes : get_rid_from_name(p, http)
    \/ got_rid(p)
    \/ add_rid_to_cache(p)
    \/ clear_cache(p)
    \/ \E outcome \in SaveOutcomes : _save(p, outcome)
    \/ save_cache_to_file_returns(p)
    \/ get_cache_stats(p)
    \/ \E outcome \in EndpointOutcomes : create_datagram_endpoint(p, outcome)
    \/ \E data \in Replies : datagram_received(p, data)
    \/ error_received(p)
    \/ \E exc \in {"None", "Exception"} : connection_lost(p, exc)
    \/ wait_for_timeout(p)
    \/ wait_for_returns(p)

\* One command at a time, on every snapshot file.
Next == initialize \/ Handler(1)

Spec == Init /\ [][Next]_vars

\* Concurrent commands.  The snapshot file is absent or holds one corrupt
\* entry, and the ban server answers "not banned" or not at all.
ConcFiles == {FileMissing, FileOf([k \in {<<97, 108>>} |-> PyStr(<<97, 98>>)])}

InitConc == Init /\ file \in ConcFiles

ConcHandler(p) ==
    \/ /\ calls < MaxCalls
       /\ \/ \E identifier \in Identifiers, use_cache \in BOOLEAN :
                check_ban_async(p, identifier, use_cache)
          \/ clear_cache_command(p)
          \/ cache_status(p)
    \/ plain_result(p)
    \/ CACHE_LOCK_acquire(p)
    \/ CACHE_LOCK_wakeup(p)
    \/ get_rid_from_cache(p)
    \/ use_cached_rid(p)
    \/ remove_from_cache(p)
    \/ resolve(p)
    \/ \E http \in HttpOutcomes : get_rid_from_name(p, http)
    \/ got_rid(p)
    \/ add_rid_to_cache(p)
    \/ clear_cache(p)
    \/ \E outcome \in SaveOutcomes : _save(p, outcome)
    \/ save_cache_to_file_returns(p)
    \/ get_cache_stats(p)
    \/ create_datagram_endpoint(p, "sent")
    \/ datagram_received(p, <<0, 0, 0, 0>>)
    \/ wait_for_timeout(p)
    \/ wait_for_returns(p)

NextConc == initialize \/ \E p \in Tasks : ConcHandler(p)

SpecConc == InitConc /\ [][NextConc]_vars

\* The steps of a dispatched handler that touch the cache or end a wait;
\* the resolver finds id 34 or answers with a status other than 200.
Progress(p) ==
    \/ plain_result(p)
    \/ CACHE_LOCK_acquire(p)
    \/ CACHE_LOCK_wakeup(p)
    \/ get_rid_from_cache(p)
    \/ use_cached_rid(p)
    \/ remove_from_cache(p)
    \/ resolve(p)
    \/ get_rid_from_name(p, [kind |-> "id", id |-> PyInt(34)])
    \/ get_rid_from_name(p, [kind |-> "non200", id |-> PyNone])
    \/ got_rid(p)
    \/ add_rid_to_cache(p)
    \/ clear_cache(p)
    \/ \E outcome \in SaveOutcomes : _save(p, outcome)
    \/ save_cache_to_file_returns(p)
    \/ get_cache_stats(p)
    \/ create_datagram_endpoint(p, "sent")
    \/ wait_for_timeout(p)
    \/ wait_for_returns(p)

\* Commands on the handle "al" with use_cache, clears and stats; the ban
\* server may answer "not banned".
LiveHandler(p) ==
    \/ /\ calls < MaxCalls
       /\ \/ check_ban_async(p, <<97, 108>>, TRUE)
          \/ clear_cache_command(p)
          \/ cache_status(p)
    \/ datagram_received(p, <<0, 0, 0, 0>>)
    \/ Progress(p)

\* The snapshot file holds one corrupt entry for "al".
InitLive == Init /\ file = FileOf([k \in {<<97, 108>>} |-> PyStr(<<97, 98>>)])

NextLive == initialize \/ \E p \in Tasks : LiveHandler(p)

\* Concurrent commands on an event loop that runs every task that is ready:
\* the thread of a snapshot write ends, the HTTP request ends (its timeout
\* is 10 s), the endpoint is created, and the wait for the reply ends with
\* the reply or with its timeout.
SpecLive ==
    /\ InitLive
    /\ [][NextLive]_vars
    /\ \A p \in Tasks : WF_vars(Progress(p))

\* One more handler and one more command than in SpecConc, all on the handle
\* "al" with use_cache, over an empty cache; the resolver may also answer
\* with the id "ab".
RaceHandler(p) ==
    \/ /\ calls < MaxCalls + 1
       /\ \/ check_ban_async(p, <<97, 108>>, TRUE)
          \/ clear_cache_command(p)
          \/ cache_status(p)
    \/ get_rid_from_name(p, [kind |-> "id", id |-> PyStr(<<97, 98>>)])
    \/ datagram_received(p, <<0, 0, 0, 0>>)
    \/ Progress(p)

InitRace == Init /\ file = FileMissing

NextRace == initialize \/ \E p \in AllTasks : RaceHandler(p)

SpecRace == InitRace /\ [][NextRace]_vars

\* Snapshot files whose values all parse as integers, and no file.
ValidFiles ==
    {FileMissing} \cup
    {FileOf(d) : d \in {e \in Dicts : \A k \in DOMAIN e : IntOf(e[k]).exc = "none"}}

\* "²": str.isdigit() accepts it, int() does not.
SuperscriptTwo == <<178>>

\* Concurrent commands, the identifier "²" among them; the resolver may also
\* answer with the id "ab".
ValidHandler(p) ==
    \/ /\ calls < MaxCalls
       /\ \/ \E identifier \in Identifiers \cup {SuperscriptTwo}, use_cache \in BOOLEAN :
                check_ban_async(p, identifier, use_cache)
          \/ clear_cache_command(p)
          \/ cache_status(p)
    \/ get_rid_from_name(p, [kind |-> "id", id |-> PyStr(<<97, 98>>)])
    \/ datagram_received(p, <<0, 0, 0, 0>>)
    \/ Progress(p)

InitValid == Init /\ file \in ValidFiles

NextValid == initialize \/ \E p \in Tasks : ValidHandler(p)

SpecValid == InitValid /\ [][NextValid]_vars

\* ---------------------------------------------------------------- claims
CheckCalls == {p \in Tasks : task[p].op = "check"}
Returned(p) == task[p].pc = "done"

\* C1: when the ban server sends no reply within the timeout window, the
\* call returns ok = false with the timeout text as a failure message; a
\* timeout is never reported as ok = true or as a ban reason.
C1_TimeoutIsFailure ==
    \A p \in CheckCalls :
        (Returned(p) /\ task[p].udp = "timeout") =>
            /\ ~task[p].result.ok
            /\ task[p].result.kind # "banned"

\* C2: when the ban query hits a network or socket error (endpoint creation,
\* send, error_received), the call returns ok = false carrying the error
\* text; the error is never reported as ok = true with the error text as the
\* ban reason.
C2_NetworkErrorIsFailure ==
    \A p \in CheckCalls :
        (Returned(p) /\ task[p].udp \in {"endpoint_error", "send_error", "error_received"}) =>
            /\ ~task[p].result.ok
            /\ task[p].result.kind # "banned"

\* The lookup of a call with use_cache found an entry (no snapshot value is
\* null) whose value int() rejects.
FoundCorrupt(p) ==
    /\ task[p].op = "check"
    /\ task[p].use_cache
    /\ task[p].pc \notin {"get_rid_from_cache", "cached", "remove_from_cache"}
    /\ task[p].cached_rid # PyNone
    /\ IntOf(task[p].cached_rid).exc # "none"

\* C3: if use_cache is true and the cached value does not parse as an
\* integer, the call removes the entry from the cache, surfaces no error for
\* it, and continues with fresh resolution as on a cache miss.
C3_CorruptEntryRepaired ==
    \A p \in Tasks :
        FoundCorrupt(p) =>
            /\ task[p].repaired
            /\ task[p].result.kind # "error"

AllIdle == cur = 0 /\ \A p \in Tasks : task[p].pc = "idle"

\* C4: after any sequence of commands has completed with every snapshot
\* write succeeding, the snapshot file holds the in-memory table, also when
\* the last change of the table was the removal of a corrupt entry.
C4_SnapshotEqualsTable ==
    (plugin = "loaded" /\ AllIdle /\ mutated /\ ~writeFailed) => file = FileOf(RID_CACHE)

\* C5: in every ban query that created a transport, the transport is closed
\* exactly once by the time the call returns, whichever event ends the wait;
\* no path closes it twice.
C5_TransportClosedOnce ==
    \A p \in Tasks :
        /\ task[p].closes <= 1
        /\ (Returned(p) /\ task[p].transport # "none") =>
               (task[p].transport = "closing" /\ task[p].closes = 1)

\* C5 witness: a call has returned after a timeout, its transport closed
\* once (by the finally clause, or by the event loop before the timeout).
C5_Witness ==
    \E p \in Tasks :
        /\ Returned(p)
        /\ task[p].udp = "timeout"
        /\ task[p].transport = "closing"
        /\ task[p].closes = 1

\* The decoders of the specified cascade: strict ASCII, strict UTF-8 (one-
\* and two-byte sequences), Latin-1.
ValidAscii(b) == \A i \in 1..Len(b) : b[i] < 128

RECURSIVE ValidUtf8(_)
ValidUtf8(b) ==
    IF b = <<>> THEN TRUE
    ELSE IF b[1] < 128 THEN ValidUtf8(Tail(b))
    ELSE IF b[1] \in 194..223 /\ Len(b) >= 2 /\ b[2] \in 128..191
         THEN ValidUtf8(Tail(Tail(b)))
    ELSE FALSE

StrictCascade(b) ==
    IF ValidAscii(b) THEN b
    ELSE IF ValidUtf8(b) THEN DecodeUtf8Replace(b)
    ELSE DecodeLatin1(b)

DecTail == SubSeq(dec.response, 5, Len(dec.response))
DecodedLong == dec.pc = "returned" /\ Len(dec.response) > 4

\* C6: for every reply longer than 4 bytes whose tail decodes to only
\* whitespace or to the empty string, the query reports "not banned" (empty
\* reason); a reason is non-empty only when the trimmed decoded text is.
C6_BlankTailNotBanned ==
    DecodedLong =>
        /\ Strip(StrictCascade(DecTail)) = <<>> => dec.reason = <<>>
        /\ dec.reason # <<>> => Strip(StrictCascade(DecTail)) # <<>>

\* C7: the tail is decoded by an ordered cascade of strict decoders: valid
\* ASCII yields that text; a tail ASCII rejects but UTF-8 accepts yields its
\* UTF-8 decoding; a tail UTF-8 rejects yields its Latin-1 decoding; hex is
\* produced only if every decoder rejects the bytes (Latin-1 rejects none).
C7_StrictCascade ==
    DecodedLong =>
        /\ ValidAscii(DecTail) => dec.reason = Strip(DecTail)
        /\ (~ValidAscii(DecTail) /\ ValidUtf8(DecTail)) =>
               dec.reason = Strip(DecodeUtf8Replace(DecTail))
        /\ ~ValidUtf8(DecTail) => dec.reason = Strip(DecodeLatin1(DecTail))
        /\ dec.reason # Hex(DecTail)

\* C8: cache initialization never fails: whatever the snapshot file is
\* (missing, unreadable, not parseable, or parseable but not an object),
\* startup completes without raising and the cache starts empty.
C8_InitNeverFails ==
    /\ plugin # "failed"
    /\ (plugin = "loaded" /\ calls = 0 /\ file.jt # "dict") => RID_CACHE = EmptyDict

\* C9: a failed snapshot write never fails the operation that triggered it:
\* no call raises; while the failed write's task still holds the lock the
\* table holds identifier -> rid (put) or is empty (clear); afterwards the
\* lock is not held by that task, check_ban_async has gone on to the ban
\* query and returns its result, and clear_cache returns.
C9_FailedWriteHarmless ==
    \A p \in Tasks :
        LET t == task[p]
            failed == t.lk = "saving" /\ t.save \in SaveOutcomes \ {"ok"}
        IN  /\ t.result.kind # "raised"
            /\ (failed /\ t.op = "check") => DictGet(RID_CACHE, t.identifier) = t.rid
            /\ (failed /\ t.op = "clear") => RID_CACHE = EmptyDict
            /\ t.saveFailed =>
                   /\ lock.owner # p
                   /\ t.lk = "none"
                   /\ t.op = "check" =>
                          \/ t.pc \in {"create_datagram_endpoint", "wait_for"}
                          \/ /\ t.pc = "done"
                             /\ t.result.kind \in {"not_banned", "banned", "invalid_rid"}
                   /\ t.op = "clear" =>
                          (t.pc = "done" /\ t.result.ok /\ t.result.kind = "cleared")

\* C9 witness: a lookup whose snapshot write failed has returned "not
\* banned", its entry in the table.
C9_Witness ==
    \E p \in CheckCalls :
        /\ Returned(p)
        /\ task[p].saveFailed
        /\ task[p].result.ok
        /\ task[p].result.kind = "not_banned"
        /\ DictGet(RID_CACHE, task[p].identifier) = task[p].rid

InFlight == {p \in Tasks : task[p].save = "running"}

\* C10: under any interleaving of concurrent commands at most one snapshot
\* write is in flight at any time, and the table is not changed while a
\* snapshot write is in flight.
C10_OneWriterNoMutation ==
    /\ [](Cardinality(InFlight) <= 1)
    /\ [][InFlight # {} => RID_CACHE' = RID_CACHE]_vars

\* C10 witness: a snapshot write is in flight while another command waits
\* for the lock in add_rid_to_cache.
C10_Witness ==
    \E p, q \in Tasks :
        /\ task[p].save = "running"
        /\ task[q].lk = "wait"
        /\ task[q].pc = "add_rid_to_cache"

\* C11: under any interleaving of concurrent get, put, remove, clear and
\* stats the outcome is that of the operations run one at a time, in the
\* order of their critical sections: the table holds what the sequential
\* cache holds (no put of another identifier is lost), every lookup returned
\* what the sequential cache returns, and stats and clear returned its size,
\* which for clear is the number of entries it removed.
C11_Linearizable ==
    /\ Items(RID_CACHE) = linear
    /\ \A p \in Tasks :
          /\ task[p].cached_rid = task[p].seq_rid
          /\ task[p].ret = task[p].seq_ret

\* C11 witness: two calls in flight have put distinct identifiers, the
\* second while the first waits for its reply, and both entries are in the
\* table.
C11_Witness ==
    \E p, q \in Tasks :
        /\ task[p].identifier # task[q].identifier
        /\ task[p].puts = 1 /\ task[p].pc = "wait_for"
        /\ task[q].puts = 1 /\ task[q].lk = "saving"
        /\ DictGet(RID_CACHE, task[p].identifier) = task[p].rid
        /\ DictGet(RID_CACHE, task[q].identifier) = task[q].rid

\* C12: check_ban_async never raises to its caller: whatever the identifier,
\* use_cache, the cache content, the end of the resolver's HTTP request, the
\* end of the ban query and the end of the snapshot write, no exception
\* leaves the call, and the call that ends returns an (ok, message) pair.
C12_NeverRaises ==
    \A p \in CheckCalls :
        /\ task[p].result.kind # "raised"
        /\ Returned(p) =>
               task[p].result.kind \in
                   {"not_banned", "banned", "no_rid", "invalid_rid", "error"}

\* C12 witness: the resolver's request timed out (or its body was not JSON)
\* and the call has returned the failure pair.
C12_Witness ==
    \E p \in CheckCalls :
        /\ Returned(p)
        /\ task[p].http = "Exception"
        /\ ~task[p].result.ok
        /\ task[p].result.kind = "no_rid"

\* The resolver was asked and yielded no id: the request failed, the status
\* was not 200, the answer had no "id", or its "id" was empty.
ResolverGaveNoId(p) ==
    /\ ~IsDigit(task[p].identifier)
    /\ \/ task[p].http \in {"ClientError", "Exception", "non200", "no_id"}
       \/ task[p].http = "id" /\ task[p].rid = PyStr(<<>>)

\* C13: when the identifier is not all digits and the resolver yields no id,
\* the call returns ok = false with the unable-to-resolve message, sends no
\* ban query (it creates no endpoint) and puts no entry into the cache.
C13_NoIdNoQueryNoPut ==
    \A p \in CheckCalls :
        ResolverGaveNoId(p) =>
            /\ task[p].pc \in {"got_rid", "done"}
            /\ task[p].sends = 0
            /\ task[p].transport = "none"
            /\ task[p].puts = 0
            /\ Returned(p) => (~task[p].result.ok /\ task[p].result.kind = "no_rid")

\* C13 witness: a call with use_cache whose resolver answered with a status
\* other than 200 has returned; the table has no entry for its identifier.
C13_Witness ==
    \E p \in CheckCalls :
        /\ Returned(p)
        /\ task[p].use_cache
        /\ task[p].http = "non200"
        /\ task[p].result.kind = "no_rid"
        /\ task[p].identifier \notin DOMAIN RID_CACHE

\* Task p runs the body of clear_cache in this step.
ClearStep(p) ==
    task[p].pc = "clear_cache" /\ task[p].lk = "held" /\ task'[p].lk # "held"

\* C14: clear returns the size the table had immediately before it was
\* emptied and leaves the table empty, also when the table was empty (it
\* then returns 0).  The table grows only by a put (or by the load at
\* start), so a second clear with no put in between returns 0.
C14_ClearReturnsPriorSize ==
    /\ [][\A p \in Tasks :
             ClearStep(p) =>
                 /\ task'[p].ret = Cardinality(DOMAIN RID_CACHE)
                 /\ RID_CACHE' = EmptyDict]_vars
    /\ [][Cardinality(DOMAIN RID_CACHE') > Cardinality(DOMAIN RID_CACHE) =>
             \/ plugin = "unloaded"
             \/ \E p \in Tasks : task[p].pc = "add_rid_to_cache"]_vars
    /\ [](\A p \in Tasks :
             (Returned(p) /\ task[p].op = "clear") =>
                 (RID_CACHE = EmptyDict /\ task[p].result.kind = "cleared"))

\* C14 witness: the second of two clears has returned 0.  The first emptied
\* a loaded table and wrote the empty snapshot; the write of the second was
\* refused, which left that snapshot in place.
C14_Witness ==
    \E p \in Tasks :
        /\ Returned(p)
        /\ task[p].op = "clear"
        /\ task[p].ret = 0
        /\ task[p].saveFailed
        /\ calls = 2
        /\ mutated
        /\ file = FileOf(EmptyDict)

\* C15: each call sends at most one ban-query datagram and makes at most
\* one resolver call, on every path, the repair of a corrupt entry included;
\* a call whose query timed out or failed has sent no second datagram, and a
\* call that asked the resolver once is not asked to resolve again.
C15_OneDatagramOneLookup ==
    \A p \in CheckCalls :
        /\ task[p].sends <= 1
        /\ task[p].lookups <= 1
        /\ task[p].udp # "none" => task[p].pc \in {"wait_for", "done"}
        /\ task[p].http # "none" => task[p].pc \notin {"resolve", "get_rid_from_name"}

\* C15 witness: a call that repaired a corrupt entry, asked the resolver
\* and whose query timed out has returned: one lookup, one datagram.
C15_Witness ==
    \E p \in CheckCalls :
        /\ Returned(p)
        /\ task[p].repaired
        /\ task[p].lookups = 1
        /\ task[p].sends = 1
        /\ task[p].udp = "timeout"

\* C16: with any commands in flight, and every snapshot write, HTTP request
\* and wait for the reply ending, every call eventually returns (so none
\* waits for the lock forever), a holder has released the lock by the time
\* its call returns (also after a failed snapshot write), and the lock is
\* never left held with no task owning it.
C16_EveryCallReturns ==
    /\ \A p \in Tasks : (task[p].op # "none") ~> Returned(p)
    /\ [](\A p \in Tasks : Returned(p) => (task[p].lk = "none" /\ lock.owner # p))
    /\ [](lock.locked => lock.owner \in Tasks /\ task[lock.owner].lk \in {"held", "saving"})

\* C16 witness: a command waits for the lock while the snapshot write of
\* the holder has failed.
C16_Witness ==
    \E p, q \in Tasks :
        /\ task[p].lk = "saving"
        /\ task[p].save = "OSError"
        /\ task[q].lk = "wait"

\* The lookup of a call with use_cache found an entry whose value is a
\* non-negative integer, as a decimal str or as an int.
FoundValid(p) ==
    /\ task[p].use_cache
    /\ task[p].gets = 1
    /\ task[p].cached_rid # PyNone
    /\ IntOf(task[p].cached_rid).exc = "none"
    /\ IntOf(task[p].cached_rid).n >= 0

\* C17: when use_cache is true and the cache holds for the identifier a
\* valid numeric id (any non-negative integer, 0 included, as a decimal str
\* or as an int), the call queries the ban status of exactly that id, never
\* calls the resolver, and leaves the table and the snapshot as they were:
\* it removes nothing, puts nothing and starts no snapshot write.
C17_ValidHitIsUsed ==
    \A p \in CheckCalls :
        FoundValid(p) =>
            /\ task[p].lookups = 0
            /\ task[p].http = "none"
            /\ ~task[p].repaired
            /\ task[p].puts = 0
            /\ task[p].save = "none"
            /\ task[p].pc \in {"cached", "create_datagram_endpoint", "wait_for", "done"}
            /\ task[p].pc # "cached" =>
                   (task[p].rid = task[p].cached_rid
                      /\ task[p].rid_int = IntOf(task[p].cached_rid).n)

\* Task p runs the body of remove_from_cache in this step.
RemoveStep(p) ==
    task[p].pc = "remove_from_cache" /\ task[p].lk = "held" /\ task'[p].lk # "held"

\* C18: the repair evicts only corrupt entries: under any interleaving of
\* concurrent calls for one identifier, the entry a repair step deletes has
\* a value int() rejects; an entry whose current value parses is never
\* deleted because an earlier lookup, in another critical section, read a
\* corrupt value.
C18_RepairSparesValid ==
    [][\A p \in AllTasks :
          (RemoveStep(p) /\ task[p].identifier \in DOMAIN RID_CACHE) =>
              IntOf(RID_CACHE[task[p].identifier]).exc # "none"]_vars

\* Every value of the dict parses as an integer.
AllParse(d) == \A k \in DOMAIN d : IntOf(d[k]).exc = "none"

\* C19: starting from a cache whose values all parse as integers, after
\* any sequence of commands every value of the table and of the snapshot
\* still parses as an integer, and a call that returned the invalid-id
\* failure has left no entry for its identifier that fails to parse.
C19_ValuesStayIntegers ==
    /\ (plugin = "loaded" /\ AllIdle) =>
           (AllParse(RID_CACHE) /\ (file.jt = "dict" => AllParse(file.m)))
    /\ \A p \in CheckCalls :
           (Returned(p) /\ task[p].result.kind = "invalid_rid") =>
               IntOf(DictGet(RID_CACHE, task[p].identifier)).exc # "ValueError"

\* C20: a call with use_cache = false never reads, puts or removes a cache
\* entry (it never takes the lock) and never starts a snapshot write,
\* whatever the resolver and the ban server do; no step of the call changes
\* the table or the snapshot file, so both are after the call what they
\* were before it.
C20_ForcedCheckLeavesCache ==
    /\ [](\A p \in CheckCalls :
             ~task[p].use_cache =>
                 /\ task[p].gets = 0
                 /\ task[p].puts = 0
                 /\ ~task[p].repaired
                 /\ task[p].lk = "none"
                 /\ task[p].save = "none")
    /\ [][\A p \in Tasks :
             (task[p].op = "check" /\ ~task[p].use_cache) =>
                 (RID_CACHE' = RID_CACHE /\ file' = file)]_vars

\* C20 witness: a call with use_cache = false has resolved "al" to an id
\* other than the cached one and has returned; the table was never changed.
C20_Witness ==
    \E p \in CheckCalls :
        /\ Returned(p)
        /\ ~task[p].use_cache
        /\ task[p].result.ok
        /\ task[p].lookups = 1
        /\ task[p].identifier \in DOMAIN RID_CACHE
        /\ RID_CACHE[task[p].identifier] # task[p].rid
        /\ ~mutated

====
